---- MODULE Spec2Model ----
(***************************************************************************)
(* A model of src/src/parser.rs, the document-parsing core of a UPnP       *)
(* client.                                                                 *)
(*                                                                         *)
(*  - Spec        : the device build (parse_location / parse_services /    *)
(*                  parse_service_description) as a process that suspends  *)
(*                  at each network fetch.                                 *)
(*  - SpecBrowse  : the content-directory scanner                          *)
(*                  (deserialize_content_directory) fed one XML event at   *)
(*                  a time.                                                *)
(*  - SpecScalar  : the scalar response extractors (parse_volume,          *)
(*                  parse_duration, parse_position, ...) fed one XML event *)
(*                  at a time.                                             *)
(*  - SpecExtract : one call of any of these response extractors.          *)
(*  - SpecMetadata : deserialize_metadata fed one XML event at a time.      *)
(*  - SpecRerun   : deserialize_content_directory called twice on the same *)
(*                  document.                                              *)
(*  - SpecBrowseResponse : parse_browse_response, reading the envelope and *)
(*                  handing each text of its Result element to the         *)
(*                  content-directory scanner.                             *)
(*                                                                         *)
(* Strings that the code splits or slices are sequences (of '/'-separated  *)
(* segments for URLs, of characters for times); strings the code only      *)
(* copies are TLA+ strings.                                                *)
(***************************************************************************)
EXTENDS Integers, Sequences, FiniteSets, TLC

VARIABLES
    \* ---- device build ----
    entry,                  \* which public function was called
    location,               \* parse_location's argument
    base_url,               \* parse_services' base_url
    xml_root,               \* the descriptor document
    pc,                     \* where the build is suspended
    inflight,               \* fetches issued and not yet answered
    issued,                 \* every fetch issued so far, in order
    responses,              \* every response received so far, in order
    device,                 \* the Device under construction
    services,               \* parse_services' first vector
    services_with_actions,  \* parse_services' second vector
    result,                 \* the returned Result
    \* ---- deserialize_content_directory ----
    ip,                     \* the host/IP token argument
    flags,                  \* in_container, in_item, in_title, ..., in_res
    containers,             \* Vec<Container>
    items,                  \* Vec<Item>
    open,                   \* the reader's stack of open elements
    didl,                   \* the document read so far: its res elements
    stream,                 \* the reader: "reading", "end" or "error"
    nev,                    \* number of start tags and texts read
    cd_result,              \* the returned Result
    \* ---- the scalar extractors ----
    fn,                     \* the extractor that was called
    in_target,              \* in_current_volume, in_duration, in_position, ...
    captured,               \* current_volume, duration, position, ...
    sc_open,                \* the reader's stack of open elements
    sc_stream,              \* the document: "reading", "end" or "error"
    hits,                   \* the target's texts (or val attributes) read so far
    sc_nev,                 \* number of start tags and texts read
    sc_result,              \* the returned Result
    \* ---- deserialize_metadata ----
    md_flags,               \* in_title, in_artist, in_album, in_album_art
    metadata,               \* the locals title, artist, album, album_art, url
    md_open,                \* the reader's stack of open elements
    md_stream,              \* the reader: "reading", "end" or "error"
    md_doc,                 \* what has been read of the document so far
    md_nev,                 \* number of start tags and texts read
    md_result,              \* the returned Result
    \* ---- a call of deserialize_content_directory made twice ----
    run,                    \* 1 for the first call, 2 for the second
    tape,                   \* the events the first call read, in order
    first,                  \* what the first call returned
    replay,                 \* number of events the second call has read
    \* ---- parse_browse_response ----
    pb_ip,                  \* the ip argument
    in_result,              \* in_result
    pb_value,               \* the local `result`
    pb_open,                \* the reader's stack of open elements
    pb_stream,              \* the reader: "reading", "inner", "end" or "error"
    pb_doc,                 \* what has been read of the envelope so far
    pb_nev,                 \* number of events of the envelope read
    pb_steps,               \* number of steps taken by the inner calls
    pb_result               \* the returned Result

bvars == <<entry, location, base_url, xml_root, pc, inflight, issued,
           responses, device, services, services_with_actions, result>>

cvars == <<ip, flags, containers, items, open, stream, didl, nev, cd_result>>

svars == <<fn, in_target, captured, sc_open, sc_stream, hits, sc_nev,
           sc_result>>

mvars == <<md_flags, metadata, md_open, md_stream, md_doc, md_nev, md_result>>

rvars == <<run, tape, first, replay>>

pvars == <<pb_ip, in_result, pb_value, pb_open, pb_stream, pb_doc, pb_nev,
           pb_steps, pb_result>>

vars == <<bvars, cvars, svars, mvars, rvars, pvars>>

-----------------------------------------------------------------------------
(* Bounds *)

MaxServices == 2

\* Start tags and texts of one content-directory document
MaxEvents == 5

\* Start tags and texts of one response read by a scalar extractor
MaxScalarEvents == 4

\* Start tags and texts of one document read by deserialize_metadata
MaxMetadataEvents == 4

\* Events of a document that is read twice
MaxTape == 5

\* Events of one envelope read by parse_browse_response
MaxEnvelopeEvents == 4

\* Steps of the calls of deserialize_content_directory made for one envelope
MaxInnerSteps == 4

-----------------------------------------------------------------------------
(* Option and Result *)

None == [some |-> FALSE]
Some(v) == [some |-> TRUE, val |-> v]

Ok(v) == [kind |-> "ok", value |-> v]
Err(e) == [kind |-> "err", error |-> e]
NoResult == [kind |-> "none"]

SeqsUpTo(S, n) == UNION {[1..k -> S] : k \in 0..n}

-----------------------------------------------------------------------------
(* URLs.  A URL string is the sequence of its '/'-separated segments:      *)
(* "http://h:1/a" is <<"http:", "", "h:1", "a">>; "" is <<"">>.            *)

EmptyStr == <<"">>

Schemes == {"http:", "https:"}

BadHosts == {"", "["}

\* Url::parse: scheme, "//", a valid host, then the path ("/" when absent).
UrlParse(s) ==
    IF Len(s) >= 3 /\ s[1] \in Schemes /\ s[2] = "" /\ s[3] \notin BadHosts
    THEN Ok([scheme |-> s[1], host |-> s[3],
             path |-> IF Len(s) = 3 THEN <<"">> ELSE SubSeq(s, 4, Len(s))])
    ELSE Err("InvalidUrl")

\* Url::to_string
UrlToString(u) == <<u.scheme, "", u.host>> \o u.path

\* Url::join: reference resolution against a parsed base.
UrlJoin(b, ref) ==
    IF ref = EmptyStr THEN Ok(b)
    ELSE IF ref[1] \in Schemes THEN UrlParse(ref)
    ELSE IF Len(ref) >= 3 /\ ref[1] = "" /\ ref[2] = ""
         THEN UrlParse(<<b.scheme>> \o Tail(ref))
    ELSE IF Len(ref) >= 2 /\ ref[1] = ""
         THEN Ok([b EXCEPT !.path = Tail(ref)])
    ELSE Ok([b EXCEPT !.path = SubSeq(b.path, 1, Len(b.path) - 1) \o ref])

build_absolute_url_unresolved(base, relative) ==
    IF UrlParse(base).kind = "err" THEN UrlParse(base) ELSE Ok(relative)

\* build_absolute_url(base_url, relative_url)
build_absolute_url(base, relative) ==
    LET b == UrlParse(base) IN
    IF b.kind = "err" THEN b
    ELSE LET j == UrlJoin(b.value, relative) IN
         IF j.kind = "err" THEN j ELSE Ok(UrlToString(j.value))

\* location.split('/').take(3).collect().join("/")
BaseOf(loc) == SubSeq(loc, 1, IF Len(loc) < 3 THEN Len(loc) ELSE 3)

-----------------------------------------------------------------------------
(* Documents, as the trees elementtree builds from them *)

DeviceFieldNames == {"deviceType", "friendlyName", "manufacturer",
                     "manufacturerURL", "modelDescription", "modelName",
                     "modelNumber", "UDN"}

RequiredDeviceFields == {"deviceType", "friendlyName", "manufacturer",
                         "modelName", "UDN"}

ServiceFieldNames == {"serviceType", "serviceId", "controlURL",
                      "eventSubURL", "SCPDURL"}

UrlFieldNames == {"controlURL", "eventSubURL", "SCPDURL"}

\* Texts of a URL element: "/scpd.xml", "d/scpd.xml", an absolute URL of
\* another origin, the empty text, and a text no URL parser accepts
UrlTexts == {<<"", "scpd.xml">>, <<"d", "scpd.xml">>,
             <<"http:", "", "other:80", "s">>, EmptyStr,
             <<"http:", "", "[", "s">>}

\* A complete service element whose SCPDURL element holds u
FullService(id, u) ==
    [f \in ServiceFieldNames |->
        IF f = "serviceType" THEN Some(<<"type", id>>)
        ELSE IF f = "serviceId" THEN Some(<<id>>)
        ELSE IF f = "SCPDURL" THEN Some(u)
        ELSE IF f = "controlURL" THEN Some(<<"", "ctl", id>>)
        ELSE Some(<<"evt", id>>)]

Without(e, f) == [e EXCEPT ![f] = None]

ServiceElems ==
    {FullService("A", u) : u \in UrlTexts}
    \cup {[FullService("D", <<"", "s">>) EXCEPT !["controlURL"] = Some(u)] :
             u \in {EmptyStr, <<"http:", "", "[", "s">>}}
    \cup {Without(FullService("E", <<"", "s">>), f) : f \in ServiceFieldNames}

\* The device element's children: the field's name stands for its text
FullDevice == [f \in DeviceFieldNames |-> Some(f)]

DeviceElems ==
    {FullDevice}
    \cup {[FullDevice EXCEPT ![f] = v] : f \in DeviceFieldNames, v \in {None, Some("")}}

MalformedDescriptor ==
    [wf |-> FALSE, hasDevice |-> FALSE, fields |-> FullDevice,
     hasServiceList |-> FALSE, serviceList |-> <<>>]

\* Descriptors: every device variant with at most one service, and the
\* complete device with every service list up to MaxServices.
DescriptorDocs ==
    {MalformedDescriptor}
    \cup {[wf |-> TRUE, hasDevice |-> FALSE, fields |-> FullDevice,
           hasServiceList |-> FALSE, serviceList |-> <<>>]}
    \cup {[wf |-> TRUE, hasDevice |-> TRUE, fields |-> d,
           hasServiceList |-> FALSE, serviceList |-> <<>>] : d \in DeviceElems}
    \cup {[wf |-> TRUE, hasDevice |-> TRUE, fields |-> d,
           hasServiceList |-> TRUE, serviceList |-> l] :
             d \in DeviceElems, l \in SeqsUpTo(ServiceElems, 1)}
    \cup {[wf |-> TRUE, hasDevice |-> TRUE, fields |-> FullDevice,
           hasServiceList |-> TRUE, serviceList |-> l] :
             l \in SeqsUpTo(ServiceElems, MaxServices)}

\* Service descriptions
FullArg(n) == [name |-> Some(n), direction |-> Some("in"),
               relatedStateVariable |-> Some("A_ARG_TYPE")]

BadArgs ==
    {[FullArg("x") EXCEPT !.name = None],
     [FullArg("y") EXCEPT !.direction = None],
     [FullArg("z") EXCEPT !.relatedStateVariable = None]}

StopAction == [name |-> Some("Stop"), hasArgumentList |-> FALSE,
               arguments |-> <<>>]

SeekAction(args) == [name |-> Some("Seek"), hasArgumentList |-> TRUE,
                     arguments |-> args]

ActionElems ==
    {StopAction, [StopAction EXCEPT !.name = None],
     SeekAction(<<FullArg("InstanceID"), FullArg("Unit")>>)}
    \cup {SeekAction(<<a>>) : a \in BadArgs}
    \cup {SeekAction(<<FullArg("InstanceID"), a>>) : a \in BadArgs}

MalformedScpd == [wf |-> FALSE, hasActionList |-> FALSE, actions |-> <<>>]

ScpdDocs ==
    {MalformedScpd,
     [wf |-> TRUE, hasActionList |-> FALSE, actions |-> <<>>]}
    \cup {[wf |-> TRUE, hasActionList |-> TRUE, actions |-> <<a>>] :
             a \in ActionElems}
    \cup {[wf |-> TRUE, hasActionList |-> TRUE, actions |-> <<StopAction, a>>] :
             a \in {[StopAction EXCEPT !.name = None],
                     SeekAction(<<FullArg("Unit")>>),
                     SeekAction(<<FullArg("InstanceID"),
                                  [FullArg("y") EXCEPT !.direction = None]>>)}}

\* What a fetch can answer: a transport failure or timeout, or a document
FetchFailed == [ok |-> FALSE]
Fetched(d) == [ok |-> TRUE, doc |-> d]

DescriptorResponses == {FetchFailed} \cup {Fetched(d) : d \in DescriptorDocs}
ScpdResponses == {FetchFailed} \cup {Fetched(d) : d \in ScpdDocs}

Locations == {<<"http:", "", "h:1", "desc.xml">>,
              <<"http:", "", "h:1", "dev", "desc.xml">>,
              <<"desc.xml">>}

BaseUrls == {<<"http:", "", "h:1", "">>, <<"h:1">>}

-----------------------------------------------------------------------------
(* The tree walkers *)

\* A sequence of Results, collected the way a loop of `?` does: the first
\* error in order, or every value.
Collect(rs) ==
    IF \E i \in 1..Len(rs) : rs[i].kind = "err"
    THEN rs[CHOOSE i \in 1..Len(rs) :
                /\ rs[i].kind = "err"
                /\ \A j \in 1..(i - 1) : rs[j].kind = "ok"]
    ELSE Ok([i \in 1..Len(rs) |-> rs[i].value])

\* parse_attribute(xml_root, "device/<xml_name>")
parse_attribute(doc, xml_name) ==
    IF ~doc.wf THEN Err("MalformedXml")
    ELSE IF ~doc.hasDevice THEN Ok("")
    ELSE IF doc.fields[xml_name].some THEN Ok(doc.fields[xml_name].val)
    ELSE Ok("")

EmptyToNone(s) == IF s = "" THEN None ELSE Some(s)

DefaultDevice ==
    [location |-> EmptyStr, device_type |-> "", friendly_name |-> "",
     manufacturer |-> "", manufacturer_url |-> None,
     model_description |-> None, model_name |-> "", model_number |-> None,
     udn |-> "", services |-> <<>>]

\* The order in which parse_location reads the fields
AttributeOrder == <<"deviceType", "deviceType", "friendlyName", "manufacturer",
                    "manufacturerURL", "modelDescription", "modelName",
                    "modelNumber", "UDN">>

\* parse_location, from the descriptor's text to the Device without services
DeviceOf(loc, doc) ==
    LET a == Collect([i \in 1..Len(AttributeOrder) |->
                         parse_attribute(doc, AttributeOrder[i])])
    IN  IF a.kind = "err" THEN a
        ELSE Ok([location |-> loc,
                 device_type |-> a.value[2],
                 friendly_name |-> a.value[3],
                 manufacturer |-> a.value[4],
                 manufacturer_url |-> EmptyToNone(a.value[5]),
                 model_description |-> EmptyToNone(a.value[6]),
                 model_name |-> a.value[7],
                 model_number |-> EmptyToNone(a.value[8]),
                 udn |-> a.value[9],
                 services |-> <<>>])

ServiceFieldOrder == <<"serviceType", "serviceId", "controlURL",
                       "eventSubURL", "SCPDURL">>

\* The messages of parse_services' ok_or_else
ServiceMissing(f) ==
    CASE f = "serviceType" -> "Service missing serviceType"
      [] f = "serviceId" -> "Service missing serviceId"
      [] f = "controlURL" -> "Service missing controlURL"
      [] f = "eventSubURL" -> "Service missing eventSubURL"
      [] f = "SCPDURL" -> "Service missing SCPDURL"

ServiceOf_missingIsEmpty(base, e) ==
    LET u == Collect([i \in 1..3 |->
                 build_absolute_url(base,
                     IF e[ServiceFieldOrder[i + 2]].some
                     THEN e[ServiceFieldOrder[i + 2]].val ELSE EmptyStr)])
    IN  IF u.kind = "err" THEN u
        ELSE Ok([service_type |-> IF e["serviceType"].some
                                  THEN e["serviceType"].val ELSE "",
                 service_id |-> IF e["serviceId"].some
                                THEN e["serviceId"].val ELSE "",
                 control_url |-> u.value[1],
                 event_sub_url |-> u.value[2],
                 scpd_url |-> u.value[3],
                 actions |-> <<>>])

\* One iteration of parse_services' first loop
ServiceOf(base, e) ==
    LET f == Collect([i \in 1..5 |->
                 IF e[ServiceFieldOrder[i]].some
                 THEN Ok(e[ServiceFieldOrder[i]].val)
                 ELSE Err(ServiceMissing(ServiceFieldOrder[i]))])
    IN  IF f.kind = "err" THEN f
        ELSE LET u == Collect([i \in 1..3 |->
                          build_absolute_url(base, f.value[i + 2])])
             IN  IF u.kind = "err" THEN u
                 ELSE Ok([service_type |-> f.value[1],
                          service_id |-> f.value[2],
                          control_url |-> u.value[1],
                          event_sub_url |-> u.value[2],
                          scpd_url |-> u.value[3],
                          actions |-> <<>>])

ServiceListOf_listRequired(base, doc) ==
    IF ~doc.wf THEN Err("MalformedXml")
    ELSE IF ~doc.hasDevice \/ ~doc.hasServiceList
         THEN Err("Invalid response from device")
    ELSE Collect([i \in 1..Len(doc.serviceList) |->
                     ServiceOf(base, doc.serviceList[i])])

ServiceListOf_prefix(base, doc) ==
    IF ~doc.wf THEN Err("MalformedXml")
    ELSE IF ~doc.hasDevice THEN Err("Invalid response from device")
    ELSE IF ~doc.hasServiceList THEN Ok(<<>>)
    ELSE LET rs == [i \in 1..Len(doc.serviceList) |->
                       ServiceOf(base, doc.serviceList[i])]
             good == {n \in 0..Len(rs) : \A j \in 1..n : rs[j].kind = "ok"}
             n == CHOOSE m \in good : \A k \in good : k <= m
         IN  Ok([i \in 1..n |-> rs[i].value])

\* parse_services up to its first fetch: the vector `services`
ServiceListOf(base, doc) ==
    IF ~doc.wf THEN Err("MalformedXml")
    ELSE IF ~doc.hasDevice THEN Err("Invalid response from device")
    ELSE IF ~doc.hasServiceList THEN Ok(<<>>)
    ELSE Collect([i \in 1..Len(doc.serviceList) |->
                     ServiceOf(base, doc.serviceList[i])])

ArgumentOf(x) ==
    IF ~x.name.some THEN Err("Service::Action::Argument missing name")
    ELSE IF ~x.direction.some
         THEN Err("Service::Action::Argument missing direction")
    ELSE IF ~x.relatedStateVariable.some
         THEN Err("Service::Action::Argument missing relatedStateVariable")
    ELSE Ok([name |-> x.name.val, direction |-> x.direction.val,
             related_state_variable |-> x.relatedStateVariable.val])

ActionOf_keepParsed(x) ==
    IF ~x.name.some THEN Err("Service::Action missing name")
    ELSE IF ~x.hasArgumentList
         THEN Ok([name |-> x.name.val, arguments |-> <<>>])
    ELSE LET a == SelectSeq([i \in 1..Len(x.arguments) |->
                                ArgumentOf(x.arguments[i])],
                            LAMBDA r : r.kind = "ok")
         IN  Ok([name |-> x.name.val,
                 arguments |-> [i \in 1..Len(a) |-> a[i].value]])

\* One iteration of parse_service_description's loop over the actions
ActionOf(x) ==
    IF ~x.name.some THEN Err("Service::Action missing name")
    ELSE IF ~x.hasArgumentList
         THEN Ok([name |-> x.name.val, arguments |-> <<>>])
    ELSE LET a == Collect([i \in 1..Len(x.arguments) |->
                              ArgumentOf(x.arguments[i])])
         IN  IF a.kind = "err" THEN a
             ELSE Ok([name |-> x.name.val, arguments |-> a.value])

parse_service_description_listRequired(resp) ==
    IF ~resp.ok THEN Err("Failed to retrieve xml response from device")
    ELSE IF ~resp.doc.wf THEN Err("MalformedXml")
    ELSE IF ~resp.doc.hasActionList THEN Err("Invalid response from device")
    ELSE Collect([i \in 1..Len(resp.doc.actions) |->
                     ActionOf(resp.doc.actions[i])])

\* parse_service_description, from the fetch's answer on
parse_service_description(resp) ==
    IF ~resp.ok THEN Err("Failed to retrieve xml response from device")
    ELSE IF ~resp.doc.wf THEN Err("MalformedXml")
    ELSE IF ~resp.doc.hasActionList THEN Ok(<<>>)
    ELSE Collect([i \in 1..Len(resp.doc.actions) |->
                     ActionOf(resp.doc.actions[i])])

-----------------------------------------------------------------------------
(* Texts of response documents are sequences of tokens; contains() is the  *)
(* search for a contiguous sub-sequence.                                   *)

Contains(s, sub) ==
    \E i \in 0..(Len(s) - Len(sub)) : SubSeq(s, i + 1, i + Len(sub)) = sub

Digits == <<"0", "1", "2", "3", "4", "5", "6", "7", "8", "9">>

IsDigit(c) == \E d \in 1..10 : Digits[d] = c

DigitVal(c) == (CHOOSE d \in 1..10 : Digits[d] = c) - 1

RECURSIVE DecimalValue(_)
DecimalValue(cs) ==
    IF cs = <<>> THEN 0
    ELSE 10 * DecimalValue(SubSeq(cs, 1, Len(cs) - 1)) + DigitVal(cs[Len(cs)])

ParseUnsigned_wrapping(cs, max) ==
    LET ds == IF cs # <<>> /\ cs[1] = "+" THEN Tail(cs) ELSE cs IN
    IF ds = <<>> \/ \E i \in 1..Len(ds) : ~IsDigit(ds[i])
    THEN Err("InvalidNumber")
    ELSE Ok(DecimalValue(ds) % (max + 1))

\* str::parse for an unsigned integer: an optional '+', then one or more
\* digits, and a value no larger than max
ParseUnsigned(cs, max) ==
    LET ds == IF cs # <<>> /\ cs[1] = "+" THEN Tail(cs) ELSE cs IN
    IF ds = <<>> \/ \E i \in 1..Len(ds) : ~IsDigit(ds[i])
    THEN Err("InvalidNumber")
    ELSE IF DecimalValue(ds) > max THEN Err("InvalidNumber")
    ELSE Ok(DecimalValue(ds))

\* u8::MAX
U8Max == 255

\* The largest number three digits in a row can spell: the texts of the model
\* have no longer runs, so a u32 or a u64 never overflows
Wide == 999

-----------------------------------------------------------------------------
(* deserialize_content_directory: one step per event of the XML reader.    *)
(* The documents are DIDL-Lite documents: every element below is a         *)
(* descendant of the root element, whose own tags the scanner ignores.     *)

Audio == <<"audio">>
Video == <<"video">>

ProtocolImage == <<"http-get:*:", "image", "/jpeg:*">>
ProtocolAudio == <<"http-get:*:", "audio", "/mpeg:*">>
ProtocolVideo == <<"http-get:*:", "video", "/mp4:*">>

IpTokens == {<<"10.0.0.1">>}

\* Texts: two that contain the token 10.0.0.1 and one that does not
CdTexts == {<<"http://", "10.0.0.1", "/a">>, <<"http://", "10.0.0.1", "/b">>,
            <<"http://", "10.9.9.9", "/x">>}

\* Attribute lists of the res elements, in document order
ResAttributes ==
    {<<<<"protocolInfo", ProtocolImage>>>>,
     <<<<"protocolInfo", ProtocolAudio>>>>,
     <<<<"protocolInfo", ProtocolVideo>>, <<"size", <<"1", "2">>>>,
       <<"duration", <<"0:01">>>>>>,
     <<<<"size", <<"x">>>>, <<"protocolInfo", ProtocolAudio>>>>}

RecordAttributes == {<<<<"id", <<"7">>>>, <<"parentID", <<"0">>>>>>}

CdStartTags ==
    {[name |-> n, attrs |-> a] : n \in {"container", "item"}, a \in RecordAttributes}
    \cup {[name |-> "res", attrs |-> a] : a \in ResAttributes}
    \cup {[name |-> n, attrs |-> <<>>] : n \in {"title", "class"}}

FlagNames == {"container", "item", "title", "artist", "album", "albumArtURI",
              "genre", "class", "res"}

NoFlags == [f \in FlagNames |-> FALSE]

DefaultContainer ==
    [id |-> <<>>, parent_id |-> <<>>, title |-> <<>>, object_class |-> None]

DefaultItem ==
    [id |-> <<>>, parent_id |-> <<>>, title |-> <<>>, artist |-> None,
     album |-> None, album_art_uri |-> None, genre |-> None,
     object_class |-> None, protocol_info |-> <<>>, size |-> None,
     duration |-> None, url |-> <<>>]

Panic == [kind |-> "panic"]

\* The attribute loops of "container" and "item"
RECURSIVE WithIds(_, _)
WithIds(rec, attrs) ==
    IF attrs = <<>> THEN rec
    ELSE LET a == Head(attrs) IN
         WithIds(IF a[1] = "id" THEN [rec EXCEPT !.id = a[2]]
                 ELSE IF a[1] = "parentID" THEN [rec EXCEPT !.parent_id = a[2]]
                 ELSE rec,
                 Tail(attrs))

SetLast(seq, field, v) == [seq EXCEPT ![Len(seq)][field] = v]

\* The attribute loop of "res": Ok(items), the error of `?`, or the panic
\* of unwrap() on an empty items
RECURSIVE ResAttrs(_, _)
ResAttrs(its, attrs) ==
    IF attrs = <<>> THEN Ok(its)
    ELSE LET a == Head(attrs) IN
         IF a[1] = "protocolInfo"
         THEN IF Contains(a[2], Audio) \/ Contains(a[2], Video)
              THEN IF its = <<>> THEN Panic
                   ELSE ResAttrs(SetLast(its, "protocol_info", a[2]), Tail(attrs))
              ELSE ResAttrs(its, Tail(attrs))
         ELSE IF a[1] = "size"
         THEN LET n == ParseUnsigned(a[2], Wide) IN
              IF n.kind = "err" THEN n
              ELSE IF its = <<>> THEN Panic
              ELSE ResAttrs(SetLast(its, "size", Some(n.value)), Tail(attrs))
         ELSE IF a[1] = "duration"
         THEN IF its = <<>> THEN Panic
              ELSE ResAttrs(SetLast(its, "duration", Some(a[2])), Tail(attrs))
         ELSE ResAttrs(its, Tail(attrs))

\* No container or item is open
NoRecord == [kind |-> "", idx |-> 0]

\* The innermost open element: the indices of the innermost open item (in
\* items) and of the innermost open res (in didl.res), 0 when there is none,
\* and the innermost open container or item (its kind and its index in
\* containers or in items)
Innermost == IF open = <<>>
             THEN [name |-> "", item |-> 0, res |-> 0, rec |-> NoRecord]
             ELSE open[Len(open)]

\* The protocolInfo attribute of a start tag, empty when it has none
RECURSIVE OwnProtocol(_)
OwnProtocol(attrs) ==
    IF attrs = <<>> THEN <<>>
    ELSE IF Head(attrs)[1] = "protocolInfo" THEN Head(attrs)[2]
    ELSE OwnProtocol(Tail(attrs))

\* A DIDL-Lite listing is flat: containers and items are children of the
\* root, and their children (title, res, ...) hold text only
FlatAt(depth, name) ==
    IF name \in {"container", "item"} THEN depth = 0 ELSE depth = 1

\* The document after one more start tag
DocStart(tag) ==
    [res |-> IF tag.name = "res"
             THEN Append(didl.res, [owner |-> Innermost.item,
                                   pi |-> OwnProtocol(tag.attrs),
                                   texts |-> <<>>])
             ELSE didl.res,
     flat |-> didl.flat /\ FlatAt(Len(open), tag.name)]

\* The document after one more text
DocText(value) ==
    IF Innermost.res = 0 THEN didl
    ELSE [didl EXCEPT !.res[Innermost.res].texts = Append(@, value)]

Reading == stream = "reading" /\ cd_result = NoResult

ContainerText_anyTime(cs, value) ==
    IF cs # <<>>
    THEN LET c1 == IF flags["title"] THEN SetLast(cs, "title", value) ELSE cs
         IN  IF flags["class"] THEN SetLast(c1, "object_class", Some(value))
             ELSE c1
    ELSE cs

\* The Characters arm, for the last container
ContainerText(cs, value) ==
    IF flags["container"] /\ cs # <<>>
    THEN LET c1 == IF flags["title"] THEN SetLast(cs, "title", value) ELSE cs
         IN  IF flags["class"] THEN SetLast(c1, "object_class", Some(value))
             ELSE c1
    ELSE cs

AdoptsUrl_anyProtocol(it, value) ==
    flags["res"] /\ it.url = <<>> /\ Contains(value, ip)

\* The condition of lines 681-685
AdoptsUrl(it, value) ==
    /\ flags["res"]
    /\ it.url = <<>>
    /\ Contains(value, ip)
    /\ (Contains(it.protocol_info, Audio) \/ Contains(it.protocol_info, Video))

\* The Characters arm, for the last item
ItemText(is, value) ==
    IF flags["item"] /\ is # <<>>
    THEN LET i1 == IF flags["title"] THEN SetLast(is, "title", value) ELSE is
             i2 == IF flags["artist"] THEN SetLast(i1, "artist", Some(value)) ELSE i1
             i3 == IF flags["album"] THEN SetLast(i2, "album", Some(value)) ELSE i2
             i4 == IF flags["albumArtURI"]
                   THEN SetLast(i3, "album_art_uri", Some(value)) ELSE i3
             i5 == IF flags["genre"] THEN SetLast(i4, "genre", Some(value)) ELSE i4
             i6 == IF flags["class"]
                   THEN SetLast(i5, "object_class", Some(value)) ELSE i5
         IN  IF AdoptsUrl(i6[Len(i6)], value) THEN SetLast(i6, "url", value)
             ELSE i6
    ELSE is

\* XmlEvent::StartElement
CdStartElement(tag) ==
    /\ Reading
    /\ nev < MaxEvents
    /\ nev' = nev + 1
    /\ didl' = DocStart(tag)
    /\ open' = Append(open, [name |-> tag.name,
                             item |-> IF tag.name = "item" THEN Len(items) + 1
                                      ELSE Innermost.item,
                             res |-> IF tag.name = "res" THEN Len(didl.res) + 1
                                     ELSE Innermost.res,
                             rec |-> IF tag.name = "container"
                                     THEN [kind |-> "container",
                                           idx |-> Len(containers) + 1]
                                     ELSE IF tag.name = "item"
                                     THEN [kind |-> "item", idx |-> Len(items) + 1]
                                     ELSE Innermost.rec])
    /\ IF tag.name = "container"
       THEN /\ containers' = Append(containers, WithIds(DefaultContainer, tag.attrs))
            /\ flags' = [flags EXCEPT !["container"] = TRUE]
            /\ UNCHANGED <<items, cd_result>>
       ELSE IF tag.name = "item"
       THEN /\ items' = Append(items, WithIds(DefaultItem, tag.attrs))
            /\ flags' = [flags EXCEPT !["item"] = TRUE]
            /\ UNCHANGED <<containers, cd_result>>
       ELSE IF tag.name = "res"
       THEN LET r == ResAttrs(items, tag.attrs) IN
            IF r.kind = "ok"
            THEN /\ items' = r.value
                 /\ flags' = [flags EXCEPT !["res"] = TRUE]
                 /\ UNCHANGED <<containers, cd_result>>
            ELSE /\ cd_result' = r
                 /\ UNCHANGED <<containers, items, flags>>
       ELSE /\ flags' = IF tag.name \in FlagNames
                        THEN [flags EXCEPT ![tag.name] = TRUE] ELSE flags
            /\ UNCHANGED <<containers, items, cd_result>>
    /\ UNCHANGED <<ip, stream>>
    /\ UNCHANGED <<bvars, svars, mvars>>

\* XmlEvent::EndElement, of the innermost open element
CdEndElement ==
    /\ Reading
    /\ open # <<>>
    /\ flags' = IF Innermost.name \in FlagNames
                THEN [flags EXCEPT ![Innermost.name] = FALSE] ELSE flags
    /\ open' = SubSeq(open, 1, Len(open) - 1)
    /\ UNCHANGED <<ip, containers, items, stream, didl, nev, cd_result>>
    /\ UNCHANGED <<bvars, svars, mvars>>

\* XmlEvent::Characters
CdCharacters(value) ==
    /\ Reading
    /\ nev < MaxEvents
    /\ nev' = nev + 1
    /\ didl' = DocText(value)
    /\ containers' = ContainerText(containers, value)
    /\ items' = ItemText(items, value)
    /\ UNCHANGED <<ip, flags, open, stream, cd_result>>
    /\ UNCHANGED <<bvars, svars, mvars>>

\* The reader reports the end of a well-formed document: the loop ends
CdEndDocument ==
    /\ Reading
    /\ open = <<>>
    /\ stream' = "end"
    /\ cd_result' = Ok(<<containers, items>>)
    /\ UNCHANGED <<ip, flags, containers, items, open, didl, nev>>
    /\ UNCHANGED <<bvars, svars, mvars>>

\* The reader reports that the document is not well-formed: the Err item
\* falls to the `_ => {}` arm, and the iterator ends after it
CdMalformed ==
    /\ Reading
    /\ stream' = "error"
    /\ cd_result' = Ok(<<containers, items>>)
    /\ UNCHANGED <<ip, flags, containers, items, open, didl, nev>>
    /\ UNCHANGED <<bvars, svars, mvars>>

-----------------------------------------------------------------------------
(* The scalar extractors: one step per event of the XML reader.  Texts are  *)
(* sequences of characters, so that split, replace and the byte slices of   *)
(* parse_duration act on them as the code does.                             *)

TextExtractors ==
    {"parse_volume", "parse_duration", "parse_position",
     "parse_supported_protocols", "parse_last_change"}

ValExtractors ==
    {"parse_current_play_mode", "parse_transport_state",
     "parse_av_transport_uri_metadata", "parse_current_track_metadata"}

ScalarExtractors == TextExtractors \cup ValExtractors

\* The local name each extractor looks for
Target(f) ==
    CASE f = "parse_volume" -> "CurrentVolume"
      [] f = "parse_duration" -> "MediaDuration"
      [] f = "parse_position" -> "RelTime"
      [] f = "parse_supported_protocols" -> "Sink"
      [] f = "parse_last_change" -> "LastChange"
      [] f = "parse_current_play_mode" -> "CurrentPlayMode"
      [] f = "parse_transport_state" -> "TransportState"
      [] f = "parse_av_transport_uri_metadata" -> "AVTransportURIMetaData"
      [] f = "parse_current_track_metadata" -> "CurrentTrackMetaData"

VolumeTexts == {<<"3", "7">>, <<"2", "5", "5">>, <<"3", "0", "0">>, <<"x">>}

TimeTexts ==
    {<<"0", "1", ":", "0", "2", ":", "0", "3">>,
     <<"1", "0", ":", "0", "0", ":", "5", "9">>,
     <<"1", ":", "2", ":", "3">>,
     <<"0", "1", "0", "2", "0", "3">>,
     <<"0", "1", ":", "0", "2", ":", "0", "3", "x">>,
     <<"0", "1", ":", "0", "2">>,
     <<"0", "é", ":", "0", "2", ":", "0", "3">>,
     <<"1", ":", "0", "2", ":", "0", "3">>,
     <<"0", ":", "0", "5">>,
     <<"0", "5">>,
     <<"a", ":", "0", "5">>}

ProtocolTexts == {<<"a", ",", "b">>, <<"a">>, <<",">>}

OpaqueTexts == {<<"v", "1">>, <<"v", "2">>}

\* The texts a response to each extractor's request is given
TextsOf(f) ==
    CASE f = "parse_volume" -> VolumeTexts
      [] f \in {"parse_duration", "parse_position"} -> TimeTexts
      [] f = "parse_supported_protocols" -> ProtocolTexts
      [] OTHER -> OpaqueTexts

\* A start tag: its local name and its val attribute, if it has one
ScStartTags(f) ==
    [name : {Target(f), "Other"}, val : {None}]
        \cup (IF f \in ValExtractors
              THEN [name : {Target(f), "Other"}, val : {Some(v) : v \in OpaqueTexts}]
              ELSE {})

\* Length in bytes of a character's UTF-8 encoding
Utf8Len(c) == IF c = "é" THEN 2 ELSE 1

RECURSIVE ByteLen(_)
ByteLen(cs) == IF cs = <<>> THEN 0 ELSE Utf8Len(Head(cs)) + ByteLen(Tail(cs))

\* is_char_boundary
IsCharBoundary(cs, n) == \E k \in 0..Len(cs) : ByteLen(SubSeq(cs, 1, k)) = n

\* &s[a..b]: panics when b is past the end or a bound is inside a character
ByteSlice(cs, a, b) ==
    IF ~IsCharBoundary(cs, a) \/ ~IsCharBoundary(cs, b)
    THEN Panic
    ELSE LET from == CHOOSE k \in 0..Len(cs) : ByteLen(SubSeq(cs, 1, k)) = a
             to == CHOOSE k \in 0..Len(cs) : ByteLen(SubSeq(cs, 1, k)) = b
         IN Ok(SubSeq(cs, from + 1, to))

Remove_keep(cs, c) == cs

\* str::replace(c, "")
RECURSIVE Remove(_, _)
Remove(cs, c) ==
    IF cs = <<>> THEN <<>>
    ELSE IF Head(cs) = c THEN Remove(Tail(cs), c)
    ELSE <<Head(cs)>> \o Remove(Tail(cs), c)

RECURSIVE Split_skipEmpty(_, _)
Split_skipEmpty(cs, c) ==
    IF cs = <<>> THEN <<>>
    ELSE IF \A i \in 1..Len(cs) : cs[i] # c THEN <<cs>>
    ELSE LET i == CHOOSE j \in 1..Len(cs) :
                      cs[j] = c /\ \A k \in 1..(j - 1) : cs[k] # c
         IN (IF i = 1 THEN <<>> ELSE <<SubSeq(cs, 1, i - 1)>>)
                \o Split_skipEmpty(SubSeq(cs, i + 1, Len(cs)), c)

\* str::split(c), collected
RECURSIVE Split(_, _)
Split(cs, c) ==
    IF \A i \in 1..Len(cs) : cs[i] # c THEN <<cs>>
    ELSE LET i == CHOOSE j \in 1..Len(cs) :
                      cs[j] = c /\ \A k \in 1..(j - 1) : cs[k] # c
         IN <<SubSeq(cs, 1, i - 1)>> \o Split(SubSeq(cs, i + 1, Len(cs)), c)

\* hours * 3600 + minutes * 60 + seconds, or the first group's error
TotalSeconds(hours, minutes, seconds) ==
    IF hours.kind # "ok" THEN hours
    ELSE IF minutes.kind # "ok" THEN minutes
    ELSE IF seconds.kind # "ok" THEN seconds
    ELSE Ok(hours.value * 3600 + minutes.value * 60 + seconds.value)

\* &duration[a..b].parse::<u32>()
SliceNumber(cs, a, b) ==
    LET s == ByteSlice(cs, a, b) IN
    IF s.kind = "ok" THEN ParseUnsigned(s.value, Wide) ELSE s

Incomplete_asZero == Ok(0)

Incomplete == Err("Invalid response from device")

\* What each extractor does with its local after the event loop
Finish(f, c) ==
    CASE f = "parse_volume" ->
            IF c = None THEN Incomplete ELSE Ok(c.val)
      [] f = "parse_duration" ->
            IF c = None THEN Incomplete
            ELSE LET duration == c.val IN
                 TotalSeconds(SliceNumber(duration, 0, 2),
                              SliceNumber(duration, 2, 4),
                              SliceNumber(duration, 4, 6))
      [] f = "parse_position" ->
            IF c = None THEN Incomplete
            ELSE LET position_iter == Split(c.val, ":")
                     group(i) == IF Len(position_iter) >= i
                                 THEN ParseUnsigned(position_iter[i], Wide)
                                 ELSE Ok(0)
                 IN TotalSeconds(group(1), group(2), group(3))
      [] f = "parse_supported_protocols" -> Ok(Split(c, ","))
      [] OTHER -> Ok(c)

\* The occurrence of the target an element lies in (0 when in none)
Enclosing == IF sc_open = <<>> THEN 0 ELSE sc_open[Len(sc_open)].occ

\* The document is not at its end yet.  After a return from inside the loop
\* (the `?` of parse_volume) the events that follow are the rest of the
\* document, which the extractor never reads.
ScReading == sc_stream = "reading"

\* The extractor has not returned
ScRunning == sc_result = NoResult

ScStartElement(tag) ==
    /\ ScReading
    /\ sc_nev < MaxScalarEvents
    /\ tag \in ScStartTags(fn)
    /\ sc_nev' = sc_nev + 1
    /\ IF tag.name = Target(fn)
       THEN /\ hits' = Append(hits, IF tag.val = None THEN <<>> ELSE <<tag.val.val>>)
            /\ sc_open' = Append(sc_open, [name |-> tag.name, occ |-> Len(hits) + 1])
            /\ IF ~ScRunning
               THEN UNCHANGED <<in_target, captured>>
               ELSE IF fn \in TextExtractors
               THEN in_target' = TRUE /\ UNCHANGED captured
               ELSE /\ captured' = IF tag.val = None THEN captured ELSE tag.val
                    /\ UNCHANGED in_target
       ELSE /\ sc_open' = Append(sc_open, [name |-> tag.name, occ |-> Enclosing])
            /\ UNCHANGED <<hits, in_target, captured>>
    /\ UNCHANGED <<fn, sc_stream, sc_result>>
    /\ UNCHANGED <<bvars, cvars, mvars, rvars, pvars>>

ScEndElement ==
    /\ ScReading
    /\ sc_open # <<>>
    /\ sc_open' = SubSeq(sc_open, 1, Len(sc_open) - 1)
    /\ in_target' = IF /\ ScRunning
                       /\ fn \in TextExtractors
                       /\ sc_open[Len(sc_open)].name = Target(fn)
                    THEN FALSE ELSE in_target
    /\ UNCHANGED <<fn, captured, sc_stream, hits, sc_nev, sc_result>>
    /\ UNCHANGED <<bvars, cvars, mvars, rvars, pvars>>

ScCharacters(text) ==
    /\ ScReading
    /\ sc_nev < MaxScalarEvents
    /\ text \in TextsOf(fn)
    /\ sc_nev' = sc_nev + 1
    /\ hits' = IF fn \in TextExtractors /\ Enclosing # 0
               THEN [hits EXCEPT ![Enclosing] = Append(@, text)] ELSE hits
    /\ IF ScRunning /\ fn \in TextExtractors /\ in_target
       THEN CASE fn = "parse_volume" ->
                    LET volume == ParseUnsigned(text, U8Max) IN
                    IF volume.kind = "ok"
                    THEN captured' = Some(volume.value) /\ UNCHANGED sc_result
                    ELSE sc_result' = volume /\ UNCHANGED captured
              [] fn = "parse_duration" ->
                    captured' = Some(Remove(text, ":")) /\ UNCHANGED sc_result
              [] fn = "parse_supported_protocols" ->
                    captured' = text /\ UNCHANGED sc_result
              [] OTHER ->
                    captured' = Some(text) /\ UNCHANGED sc_result
       ELSE UNCHANGED <<captured, sc_result>>
    /\ UNCHANGED <<fn, in_target, sc_open, sc_stream>>
    /\ UNCHANGED <<bvars, cvars, mvars, rvars, pvars>>

\* The document ends: the iterator is exhausted and the tail of the function
\* runs
ScEndDocument ==
    /\ ScReading
    /\ sc_open = <<>>
    /\ sc_stream' = "end"
    /\ sc_result' = IF ScRunning THEN Finish(fn, captured) ELSE sc_result
    /\ UNCHANGED <<fn, in_target, captured, sc_open, hits, sc_nev>>
    /\ UNCHANGED <<bvars, cvars, mvars, rvars, pvars>>

\* The reader reports that the document is not well-formed: the Err item
\* falls to the `_ => {}` arm (or is dropped by flatten()), the iterator ends
\* after it, and the tail of the function runs
ScMalformed ==
    /\ ScReading
    /\ sc_stream' = "error"
    /\ sc_result' = IF ScRunning THEN Finish(fn, captured) ELSE sc_result
    /\ UNCHANGED <<fn, in_target, captured, sc_open, hits, sc_nev>>
    /\ UNCHANGED <<bvars, cvars, mvars, rvars, pvars>>

-----------------------------------------------------------------------------
(* deserialize_metadata: one step per event of the XML reader *)

MdFields == {"title", "artist", "album", "albumArtURI"}

MdTexts == {"T1", "T2"}

\* A start tag: its local name and its id attribute, if it has one
MdStartTags ==
    [name : {"item"}, id : {None, Some("u1"), Some("u2")}]
        \cup [name : MdFields, id : {None}]

\* The locals title, artist, album, album_art and url at entry
MdLocals == [title |-> None, artist |-> None, album |-> None,
             album_art |-> None, url |-> ""]

\* Nothing of the document has been read
MdNothing == [texts |-> [f \in MdFields |-> <<>>], elems |-> {}, ids |-> <<>>]

MdItemId_first(url, tag) ==
    IF tag.name = "item" /\ tag.id.some /\ url = "" THEN tag.id.val ELSE url

\* The attribute loop of "item"
MdItemId(url, tag) ==
    IF tag.name = "item" /\ tag.id.some THEN tag.id.val ELSE url

\* The Characters arm
MdText(m, value) ==
    [title |-> IF md_flags["title"] THEN Some(value) ELSE m.title,
     artist |-> IF md_flags["artist"] THEN Some(value) ELSE m.artist,
     album |-> IF md_flags["album"] THEN Some(value) ELSE m.album,
     album_art |-> IF md_flags["albumArtURI"] THEN Some(value) ELSE m.album_art,
     url |-> m.url]

\* The Metadata the function returns
MdFinish(m) ==
    Ok([title |-> IF m.title.some THEN m.title.val ELSE "",
        artist |-> m.artist,
        album |-> m.album,
        album_art_uri |-> m.album_art,
        url |-> m.url])

MdReading == md_stream = "reading"

MdStartElement(tag) ==
    /\ MdReading
    /\ md_nev < MaxMetadataEvents
    /\ md_nev' = md_nev + 1
    /\ metadata' = [metadata EXCEPT !.url = MdItemId(@, tag)]
    /\ md_flags' = IF tag.name \in MdFields
                   THEN [md_flags EXCEPT ![tag.name] = TRUE] ELSE md_flags
    /\ md_open' = Append(md_open, tag.name)
    /\ md_doc' = [md_doc EXCEPT
                    !.elems = @ \cup {tag.name},
                    !.ids = IF tag.name = "item" THEN Append(@, tag.id) ELSE @]
    /\ UNCHANGED <<md_stream, md_result>>
    /\ UNCHANGED <<bvars, cvars, svars, rvars, pvars>>

MdEndElement ==
    /\ MdReading
    /\ md_open # <<>>
    /\ md_flags' = IF md_open[Len(md_open)] \in MdFields
                   THEN [md_flags EXCEPT ![md_open[Len(md_open)]] = FALSE]
                   ELSE md_flags
    /\ md_open' = SubSeq(md_open, 1, Len(md_open) - 1)
    /\ UNCHANGED <<metadata, md_stream, md_doc, md_nev, md_result>>
    /\ UNCHANGED <<bvars, cvars, svars, rvars, pvars>>

MdCharacters(value) ==
    /\ MdReading
    /\ md_nev < MaxMetadataEvents
    /\ md_nev' = md_nev + 1
    /\ metadata' = MdText(metadata, value)
    /\ md_doc' = [md_doc EXCEPT !.texts =
                    [f \in MdFields |->
                        IF \E k \in 1..Len(md_open) : md_open[k] = f
                        THEN Append(@[f], value) ELSE @[f]]]
    /\ UNCHANGED <<md_flags, md_open, md_stream, md_result>>
    /\ UNCHANGED <<bvars, cvars, svars, rvars, pvars>>

\* The document ends: the loop ends and the Metadata is returned
MdEndDocument ==
    /\ MdReading
    /\ md_open = <<>>
    /\ md_stream' = "end"
    /\ md_result' = MdFinish(metadata)
    /\ UNCHANGED <<md_flags, metadata, md_open, md_doc, md_nev>>
    /\ UNCHANGED <<bvars, cvars, svars, rvars, pvars>>

\* The reader reports that the document is not well-formed: the Err item
\* falls to the `_ => {}` arm, the iterator ends after it, and the Metadata
\* is returned
MdMalformed ==
    /\ MdReading
    /\ md_stream' = "error"
    /\ md_result' = MdFinish(metadata)
    /\ UNCHANGED <<md_flags, metadata, md_open, md_doc, md_nev>>
    /\ UNCHANGED <<bvars, cvars, svars, rvars, pvars>>

\* deserialize_metadata(xml) at its entry
MdEntry ==
    /\ md_flags = [f \in MdFields |-> FALSE]
    /\ metadata = MdLocals
    /\ md_open = <<>>
    /\ md_stream = "reading"
    /\ md_doc = MdNothing
    /\ md_nev = 0
    /\ md_result = NoResult

\* No call of deserialize_metadata is running
MdIdle ==
    /\ md_flags = [f \in MdFields |-> FALSE]
    /\ metadata = MdLocals
    /\ md_open = <<>>
    /\ md_stream = "idle"
    /\ md_doc = MdNothing
    /\ md_nev = 0
    /\ md_result = NoResult

-----------------------------------------------------------------------------
(* The device build.  A step runs from one suspension point (an awaited    *)
(* fetch) to the next, or to the return.                                   *)

ScpdFetch_fanOut(svcs, k) == [i \in 1..(Len(svcs) - k + 1) |-> svcs[k + i - 1].scpd_url]

\* The fetch that iteration k of parse_services' second loop issues
ScpdFetch(svcs, k) == <<svcs[k].scpd_url>>

\* The value returned once every service has its actions
Finished(e, dev, swa) ==
    IF e = "parse_location" THEN Ok([dev EXCEPT !.services = swa]) ELSE Ok(swa)

\* parse_services' second loop, entered with swa services done: it issues
\* the next service-description fetch, or returns.
Resume(e, dev, svcs, swa) ==
    IF Len(swa) < Len(svcs)
    THEN IF UrlParse(svcs[Len(swa) + 1].scpd_url).kind = "err"
         THEN [pc |-> "done", fetch |-> <<>>, result |-> Err("InvalidUrl")]
         ELSE [pc |-> "await_scpd", fetch |-> ScpdFetch(svcs, Len(swa) + 1),
               result |-> NoResult]
    ELSE [pc |-> "done", fetch |-> <<>>, result |-> Finished(e, dev, swa)]

OnDescription_keepGoing(e, dev, svcs, swa, a) ==
    IF a.kind = "err"
    THEN [pc |-> "done", fetch |-> <<>>, result |-> Finished(e, dev, swa),
          swa |-> swa]
    ELSE LET n == Append(swa, [svcs[Len(swa) + 1] EXCEPT !.actions = a.value])
         IN  [swa |-> n] @@ Resume(e, dev, svcs, n)

\* One iteration of the second loop, once parse_service_description has
\* returned a: `?` returns its error, otherwise the service is pushed with
\* its actions and the loop goes on.
OnDescription(e, dev, svcs, swa, a) ==
    IF a.kind = "err"
    THEN [pc |-> "done", fetch |-> <<>>, result |-> a, swa |-> swa]
    ELSE LET n == Append(swa, [svcs[Len(swa) + 1] EXCEPT !.actions = a.value])
         IN  [swa |-> n] @@ Resume(e, dev, svcs, n)

\* parse_services from its entry to its first fetch or its return
EnterServices(e, dev, base, doc) ==
    LET s == ServiceListOf(base, doc) IN
    IF s.kind = "err"
    THEN [pc |-> "done", fetch |-> <<>>, result |-> s, services |-> <<>>]
    ELSE [services |-> s.value] @@ Resume(e, dev, s.value, <<>>)

\* parse_location(location), to the descriptor fetch
ParseLocationCall(loc) ==
    /\ pc = "idle"
    /\ entry' = "parse_location"
    /\ location' = loc
    /\ IF UrlParse(loc).kind = "err"
       THEN /\ pc' = "done"
            /\ result' = Err("InvalidUrl")
            /\ UNCHANGED <<inflight, issued>>
       ELSE /\ pc' = "await_descriptor"
            /\ inflight' = <<loc>>
            /\ issued' = Append(issued, loc)
            /\ UNCHANGED result
    /\ UNCHANGED <<base_url, xml_root, responses, device, services,
                   services_with_actions>>
    /\ UNCHANGED <<cvars, svars, mvars, rvars, pvars>>

\* parse_location resumed by the descriptor fetch's answer
DescriptorResponse(resp) ==
    /\ pc = "await_descriptor"
    /\ responses' = Append(responses, resp)
    /\ IF ~resp.ok
       THEN /\ pc' = "done"
            /\ inflight' = <<>>
            /\ result' = Err("Failed to retrieve xml from device endpoint")
            /\ UNCHANGED <<base_url, xml_root, issued, device, services>>
       ELSE LET d == DeviceOf(location, resp.doc) IN
            /\ xml_root' = resp.doc
            /\ IF d.kind = "err"
               THEN /\ pc' = "done"
                    /\ inflight' = <<>>
                    /\ result' = d
                    /\ UNCHANGED <<base_url, issued, device, services>>
               ELSE LET n == EnterServices(entry, d.value, BaseOf(location),
                                          resp.doc)
                    IN  /\ device' = d.value
                        /\ base_url' = BaseOf(location)
                        /\ services' = n.services
                        /\ pc' = n.pc
                        /\ inflight' = n.fetch
                        /\ issued' = issued \o n.fetch
                        /\ result' = n.result
    /\ UNCHANGED <<entry, location, services_with_actions>>
    /\ UNCHANGED <<cvars, svars, mvars, rvars, pvars>>

\* parse_services(base_url, xml_root), to its first fetch or its return
ParseServicesCall(base, doc) ==
    /\ pc = "idle"
    /\ entry' = "parse_services"
    /\ base_url' = base
    /\ xml_root' = doc
    /\ LET n == EnterServices("parse_services", device, base, doc) IN
        /\ services' = n.services
        /\ pc' = n.pc
        /\ inflight' = n.fetch
        /\ issued' = issued \o n.fetch
        /\ result' = n.result
    /\ UNCHANGED <<location, responses, device, services_with_actions>>
    /\ UNCHANGED <<cvars, svars, mvars, rvars, pvars>>

\* parse_services resumed by a service-description fetch's answer
ScpdResponse(resp) ==
    /\ pc = "await_scpd"
    /\ inflight # <<>>
    /\ responses' = Append(responses, resp)
    /\ LET n == OnDescription(entry, device, services, services_with_actions,
                              parse_service_description(resp))
       IN  /\ services_with_actions' = n.swa
           /\ pc' = n.pc
           /\ inflight' = Tail(inflight) \o n.fetch
           /\ issued' = issued \o n.fetch
           /\ result' = n.result
    /\ UNCHANGED <<entry, location, base_url, xml_root, device, services>>
    /\ UNCHANGED <<cvars, svars, mvars, rvars, pvars>>

BuildIdle ==
    /\ entry = "none"
    /\ location = EmptyStr
    /\ base_url = EmptyStr
    /\ xml_root = MalformedDescriptor
    /\ pc = "idle"
    /\ inflight = <<>>
    /\ issued = <<>>
    /\ responses = <<>>
    /\ device = DefaultDevice
    /\ services = <<>>
    /\ services_with_actions = <<>>
    /\ result = NoResult

\* deserialize_content_directory(xml, token) at its entry
CdEntry(token) ==
    /\ ip = token
    /\ flags = NoFlags
    /\ containers = <<>>
    /\ items = <<>>
    /\ open = <<>>
    /\ stream = "reading"
    /\ didl = [res |-> <<>>, flat |-> TRUE]
    /\ nev = 0
    /\ cd_result = NoResult

\* No call of deserialize_content_directory is running
CdIdle ==
    /\ ip = <<>>
    /\ flags = NoFlags
    /\ containers = <<>>
    /\ items = <<>>
    /\ open = <<>>
    /\ stream = "idle"
    /\ didl = [res |-> <<>>, flat |-> TRUE]
    /\ nev = 0
    /\ cd_result = NoResult

\* A scalar extractor at its entry
ScEntry(f) ==
    /\ fn = f
    /\ in_target = FALSE
    /\ captured = IF f = "parse_supported_protocols" THEN <<>> ELSE None
    /\ sc_open = <<>>
    /\ sc_stream = "reading"
    /\ hits = <<>>
    /\ sc_nev = 0
    /\ sc_result = NoResult

\* No scalar extractor is running
ScIdle ==
    /\ fn = "none"
    /\ in_target = FALSE
    /\ captured = None
    /\ sc_open = <<>>
    /\ sc_stream = "idle"
    /\ hits = <<>>
    /\ sc_nev = 0
    /\ sc_result = NoResult

\* No document is being read twice
NoRerun == run = 1 /\ tape = <<>> /\ first = NoResult /\ replay = 0

\* No call of parse_browse_response is running
PbIdle ==
    /\ pb_ip = <<>>
    /\ in_result = FALSE
    /\ pb_value = <<<<>>, <<>>>>
    /\ pb_open = <<>>
    /\ pb_stream = "idle"
    /\ pb_doc = [texts |-> <<>>, results |-> 0]
    /\ pb_nev = 0
    /\ pb_steps = 0
    /\ pb_result = NoResult

Init == BuildIdle /\ CdIdle /\ ScIdle /\ MdIdle /\ NoRerun /\ PbIdle

Next ==
    \/ \E loc \in Locations : ParseLocationCall(loc)
    \/ \E resp \in DescriptorResponses : DescriptorResponse(resp)
    \/ \E base \in BaseUrls, doc \in DescriptorDocs : ParseServicesCall(base, doc)
    \/ \E resp \in ScpdResponses : ScpdResponse(resp)

Spec == Init /\ [][Next]_vars

InitBrowse == BuildIdle /\ ScIdle /\ MdIdle /\ NoRerun /\ PbIdle /\ \E token \in IpTokens : CdEntry(token)

NextBrowse ==
    \/ \E tag \in CdStartTags : CdStartElement(tag) /\ UNCHANGED <<rvars, pvars>>
    \/ CdEndElement /\ UNCHANGED <<rvars, pvars>>
    \/ \E value \in CdTexts : CdCharacters(value) /\ UNCHANGED <<rvars, pvars>>
    \/ CdEndDocument /\ UNCHANGED <<rvars, pvars>>
    \/ CdMalformed /\ UNCHANGED <<rvars, pvars>>

SpecBrowse == InitBrowse /\ [][NextBrowse]_vars

InitScalar == BuildIdle /\ CdIdle /\ MdIdle /\ NoRerun /\ PbIdle /\ \E f \in ScalarExtractors : ScEntry(f)

NextScalar ==
    \/ \E tag \in ScStartTags(fn) : ScStartElement(tag)
    \/ ScEndElement
    \/ \E text \in TextsOf(fn) : ScCharacters(text)
    \/ ScEndDocument
    \/ ScMalformed

SpecScalar == InitScalar /\ [][NextScalar]_vars

InitMetadata == BuildIdle /\ CdIdle /\ ScIdle /\ NoRerun /\ PbIdle /\ MdEntry

NextMetadata ==
    \/ \E tag \in MdStartTags : MdStartElement(tag)
    \/ MdEndElement
    \/ \E value \in MdTexts : MdCharacters(value)
    \/ MdEndDocument
    \/ MdMalformed

SpecMetadata == InitMetadata /\ [][NextMetadata]_vars

\* An event of the document: the first call reads it and it is kept on the
\* tape; the second call reads the tape
Feed(ev) ==
    /\ IF run = 1
       THEN /\ Len(tape) < MaxTape
            /\ tape' = Append(tape, ev)
            /\ replay' = replay
       ELSE /\ replay < Len(tape)
            /\ tape[replay + 1] = ev
            /\ replay' = replay + 1
            /\ tape' = tape
    /\ UNCHANGED <<run, first>>
    /\ UNCHANGED pvars

CdReentry_keepsItems ==
    /\ ip' = ip
    /\ flags' = NoFlags
    /\ containers' = <<>>
    /\ items' = items
    /\ open' = <<>>
    /\ stream' = "reading"
    /\ didl' = [res |-> <<>>, flat |-> TRUE]
    /\ nev' = 0
    /\ cd_result' = NoResult

\* deserialize_content_directory entered again with the same token: its
\* locals are new
CdReentry ==
    /\ ip' = ip
    /\ flags' = NoFlags
    /\ containers' = <<>>
    /\ items' = <<>>
    /\ open' = <<>>
    /\ stream' = "reading"
    /\ didl' = [res |-> <<>>, flat |-> TRUE]
    /\ nev' = 0
    /\ cd_result' = NoResult

\* The first call has returned; the same document is given to a second call
SecondCall ==
    /\ run = 1
    /\ cd_result # NoResult
    /\ run' = 2
    /\ first' = cd_result
    /\ CdReentry
    /\ UNCHANGED <<tape, replay>>
    /\ UNCHANGED <<bvars, svars, mvars, pvars>>

InitRerun == InitBrowse

NextRerun ==
    \/ \E tag \in CdStartTags :
          CdStartElement(tag) /\ Feed([type |-> "StartElement", tag |-> tag])
    \/ CdEndElement /\ Feed([type |-> "EndElement"])
    \/ \E value \in CdTexts :
          CdCharacters(value) /\ Feed([type |-> "Characters", value |-> value])
    \/ CdEndDocument /\ Feed([type |-> "EndDocument"])
    \/ CdMalformed /\ Feed([type |-> "Err"])
    \/ SecondCall

SpecRerun == InitRerun /\ [][NextRerun]_vars

\* One call of any response extractor
InitExtract ==
    /\ BuildIdle
    /\ MdIdle
    /\ NoRerun
    /\ PbIdle
    /\ \/ CdIdle /\ \E f \in ScalarExtractors : ScEntry(f)
       \/ ScIdle /\ \E token \in IpTokens : CdEntry(token)

NextExtract ==
    \/ stream # "idle" /\ NextBrowse
    \/ sc_stream # "idle" /\ NextScalar

SpecExtract == InitExtract /\ [][NextExtract]_vars

-----------------------------------------------------------------------------
(* parse_browse_response: the envelope is read one event at a time; a text  *)
(* read while in_result is set is handed to deserialize_content_directory,  *)
(* whose reading of that text is the steps of the scanner above.            *)

\* Element names of the envelope
PbNames == {"Result", "BrowseResponse"}

\* The loop of lines 533-552 is running, and no call is in progress
PbReading == pb_stream = "reading" /\ pb_result = NoResult

\* The element being read is a Result element or lies in one
InsideResult == \E i \in 1..Len(pb_open) : pb_open[i] = "Result"

\* deserialize_content_directory(&value, token) is entered
CdCall(token) ==
    /\ ip' = token
    /\ flags' = NoFlags
    /\ containers' = <<>>
    /\ items' = <<>>
    /\ open' = <<>>
    /\ stream' = "reading"
    /\ didl' = [res |-> <<>>, flat |-> TRUE]
    /\ nev' = 0
    /\ cd_result' = NoResult

\* The locals of deserialize_content_directory are dropped at its return
CdDropped ==
    /\ ip' = <<>>
    /\ flags' = NoFlags
    /\ containers' = <<>>
    /\ items' = <<>>
    /\ open' = <<>>
    /\ stream' = "idle"
    /\ didl' = [res |-> <<>>, flat |-> TRUE]
    /\ nev' = 0
    /\ cd_result' = NoResult

\* XmlEvent::StartElement, lines 535-539
PbStartElement(name) ==
    /\ PbReading
    /\ pb_nev < MaxEnvelopeEvents
    /\ pb_nev' = pb_nev + 1
    /\ pb_open' = Append(pb_open, name)
    /\ in_result' = IF name = "Result" THEN TRUE ELSE in_result
    /\ pb_doc' = IF name = "Result"
                 THEN [pb_doc EXCEPT !.results = @ + 1] ELSE pb_doc
    /\ UNCHANGED <<pb_ip, pb_value, pb_stream, pb_steps, pb_result>>
    /\ UNCHANGED <<bvars, cvars, svars, mvars, rvars>>

\* XmlEvent::EndElement, of the innermost open element, lines 540-544
PbEndElement ==
    /\ PbReading
    /\ pb_open # <<>>
    /\ in_result' = IF pb_open[Len(pb_open)] = "Result" THEN FALSE ELSE in_result
    /\ pb_open' = SubSeq(pb_open, 1, Len(pb_open) - 1)
    /\ UNCHANGED <<pb_ip, pb_value, pb_stream, pb_doc, pb_nev, pb_steps, pb_result>>
    /\ UNCHANGED <<bvars, cvars, svars, mvars, rvars>>

\* XmlEvent::Characters, lines 545-549, up to the call of line 547
PbCharacters ==
    /\ PbReading
    /\ pb_nev < MaxEnvelopeEvents
    /\ pb_nev' = pb_nev + 1
    /\ pb_doc' = [pb_doc EXCEPT !.texts =
                      Append(@, [inside |-> InsideResult, outcome |-> NoResult])]
    /\ IF in_result
       THEN /\ pb_stream' = "inner"
            /\ CdCall(pb_ip)
       ELSE /\ pb_stream' = pb_stream
            /\ UNCHANGED cvars
    /\ UNCHANGED <<pb_ip, in_result, pb_value, pb_open, pb_steps, pb_result>>
    /\ UNCHANGED <<bvars, svars, mvars, rvars>>

\* One step of the call of line 547
PbInner ==
    /\ pb_stream = "inner"
    /\ pb_steps < MaxInnerSteps
    /\ pb_steps' = pb_steps + 1
    /\ \/ \E tag \in CdStartTags : CdStartElement(tag)
       \/ CdEndElement
       \/ \E value \in CdTexts : CdCharacters(value)
       \/ CdEndDocument
       \/ CdMalformed
    /\ UNCHANGED <<pb_ip, in_result, pb_value, pb_open, pb_stream, pb_doc, pb_nev,
                   pb_result>>
    /\ UNCHANGED rvars

\* The `?` of line 547, which drops the error of the call
PbReturn_ignoresError ==
    /\ pb_stream = "inner"
    /\ cd_result # NoResult
    /\ pb_doc' = [pb_doc EXCEPT !.texts[Len(pb_doc.texts)].outcome = cd_result]
    /\ pb_stream' = "reading"
    /\ CdDropped
    /\ IF cd_result.kind = "ok"
       THEN /\ pb_value' = cd_result.value
            /\ pb_result' = pb_result
       ELSE IF cd_result.kind = "err"
       THEN /\ pb_value' = pb_value
            /\ pb_result' = pb_result
       ELSE /\ pb_result' = cd_result
            /\ pb_value' = pb_value
    /\ UNCHANGED <<pb_ip, in_result, pb_open, pb_nev, pb_steps>>
    /\ UNCHANGED <<bvars, svars, mvars, rvars>>

\* The call of line 547 returns: `?` returns its error (and a panic
\* unwinds through the caller); its value is assigned to `result`
PbReturn ==
    /\ pb_stream = "inner"
    /\ cd_result # NoResult
    /\ pb_doc' = [pb_doc EXCEPT !.texts[Len(pb_doc.texts)].outcome = cd_result]
    /\ pb_stream' = "reading"
    /\ CdDropped
    /\ IF cd_result.kind = "ok"
       THEN /\ pb_value' = cd_result.value
            /\ pb_result' = pb_result
       ELSE /\ pb_result' = cd_result
            /\ pb_value' = pb_value
    /\ UNCHANGED <<pb_ip, in_result, pb_open, pb_nev, pb_steps>>
    /\ UNCHANGED <<bvars, svars, mvars, rvars>>

\* Any other event (whitespace, CDATA, a comment, a processing
\* instruction): the `_ => {}` arm of line 550
PbOther ==
    /\ PbReading
    /\ pb_nev < MaxEnvelopeEvents
    /\ pb_nev' = pb_nev + 1
    /\ UNCHANGED <<pb_ip, in_result, pb_value, pb_open, pb_stream, pb_doc, pb_steps,
                   pb_result>>
    /\ UNCHANGED <<bvars, cvars, svars, mvars, rvars>>

\* The reader reports the end of a well-formed envelope: line 553
PbEndDocument ==
    /\ PbReading
    /\ pb_open = <<>>
    /\ pb_stream' = "end"
    /\ pb_result' = Ok(pb_value)
    /\ UNCHANGED <<pb_ip, in_result, pb_value, pb_open, pb_doc, pb_nev, pb_steps>>
    /\ UNCHANGED <<bvars, cvars, svars, mvars, rvars>>

\* The reader reports that the envelope is not well-formed: the Err item
\* falls to the `_ => {}` arm, and the iterator ends after it
PbMalformed ==
    /\ PbReading
    /\ pb_stream' = "error"
    /\ pb_result' = Ok(pb_value)
    /\ UNCHANGED <<pb_ip, in_result, pb_value, pb_open, pb_doc, pb_nev, pb_steps>>
    /\ UNCHANGED <<bvars, cvars, svars, mvars, rvars>>

\* parse_browse_response(xml, token) at its entry, lines 529-531
PbEntry(token) ==
    /\ pb_ip = token
    /\ in_result = FALSE
    /\ pb_value = <<<<>>, <<>>>>
    /\ pb_open = <<>>
    /\ pb_stream = "reading"
    /\ pb_doc = [texts |-> <<>>, results |-> 0]
    /\ pb_nev = 0
    /\ pb_steps = 0
    /\ pb_result = NoResult

InitBrowseResponse ==
    /\ BuildIdle
    /\ CdIdle
    /\ ScIdle
    /\ MdIdle
    /\ NoRerun
    /\ \E token \in IpTokens : PbEntry(token)

NextBrowseResponse ==
    \/ \E name \in PbNames : PbStartElement(name)
    \/ PbEndElement
    \/ PbCharacters
    \/ PbInner
    \/ PbReturn
    \/ PbOther
    \/ PbEndDocument
    \/ PbMalformed

SpecBrowseResponse == InitBrowseResponse /\ [][NextBrowseResponse]_vars

-----------------------------------------------------------------------------
(* Properties of the device build *)

Returned == pc = "done" /\ result.kind = "ok"

\* The services of the returned value
ReturnedServices ==
    IF entry = "parse_location" THEN result.value.services ELSE result.value

\* The responses to service-description fetches, in order
ScpdAnswers ==
    IF entry = "parse_location" /\ responses # <<>> THEN Tail(responses)
    ELSE responses

\* The service-description fetches issued, in order
ScpdIssued ==
    IF entry = "parse_location" /\ issued # <<>> THEN Tail(issued) ELSE issued

IsAbsoluteUrl(u) ==
    Len(u) >= 3 /\ u[1] \in Schemes /\ u[2] = "" /\ u[3] \notin BadHosts

\* u is the text t resolved against the origin of base
ResolvedAgainst(base, t, u) ==
    IF t[1] \in Schemes THEN u = t
    ELSE /\ SubSeq(u, 1, 3) = SubSeq(base, 1, 3)
         /\ SubSeq(u, 4, Len(u)) = IF t = EmptyStr THEN <<"">>
                                    ELSE IF t[1] = "" THEN Tail(t)
                                    ELSE t

\* C1: when the build returns successfully for a descriptor whose serviceList
\* has N children, the returned services are exactly N, in document order,
\* and controlUrl, eventSubUrl and scpdUrl of each are non-empty absolute
\* URLs resolved against the base origin.
C1_ServicesInDocumentOrder ==
    (Returned /\ xml_root.hasServiceList) =>
        LET r == ReturnedServices
            l == xml_root.serviceList
        IN  /\ Len(r) = Len(l)
            /\ \A i \in 1..Len(l) :
                  /\ r[i].service_type = l[i]["serviceType"].val
                  /\ r[i].service_id = l[i]["serviceId"].val
                  /\ r[i].control_url # EmptyStr
                  /\ r[i].event_sub_url # EmptyStr
                  /\ r[i].scpd_url # EmptyStr
                  /\ IsAbsoluteUrl(r[i].control_url)
                  /\ IsAbsoluteUrl(r[i].event_sub_url)
                  /\ IsAbsoluteUrl(r[i].scpd_url)
                  /\ ResolvedAgainst(base_url, l[i]["controlURL"].val,
                                     r[i].control_url)
                  /\ ResolvedAgainst(base_url, l[i]["eventSubURL"].val,
                                     r[i].event_sub_url)
                  /\ ResolvedAgainst(base_url, l[i]["SCPDURL"].val,
                                     r[i].scpd_url)

\* A build that returned two services with different description URLs
C1_Witness ==
    /\ Returned
    /\ xml_root.hasServiceList
    /\ Len(xml_root.serviceList) >= 2
    /\ ReturnedServices[1].scpd_url # ReturnedServices[2].scpd_url
    /\ xml_root.serviceList[1]["SCPDURL"].val[1] \notin Schemes

\* C2: for a well-formed descriptor with a device element and no serviceList
\* the build succeeds with an empty service sequence, and no
\* service-description fetch is issued.
C2_NoServiceListNoServices ==
    (pc # "idle" /\ xml_root.wf /\ xml_root.hasDevice
        /\ ~xml_root.hasServiceList) =>
        /\ Returned
        /\ ReturnedServices = <<>>
        /\ ScpdIssued = <<>>
        /\ inflight = <<>>

C2_Witness ==
    /\ entry = "parse_services"
    /\ pc = "done"
    /\ xml_root.wf /\ xml_root.hasDevice /\ ~xml_root.hasServiceList
    /\ result = Ok(<<>>)

\* A service description that cannot be fetched or parsed
DescriptionFails(resp) ==
    \/ ~resp.ok
    \/ ~resp.doc.wf
    \/ /\ resp.doc.hasActionList
       /\ \E i \in 1..Len(resp.doc.actions) :
             LET x == resp.doc.actions[i] IN
             \/ ~x.name.some
             \/ /\ x.hasArgumentList
                /\ \E j \in 1..Len(x.arguments) :
                      \/ ~x.arguments[j].name.some
                      \/ ~x.arguments[j].direction.some
                      \/ ~x.arguments[j].relatedStateVariable.some

\* C3: if the description of any one service cannot be fetched or parsed,
\* at any position of the service list, the build returns that error and
\* never a Device or a service list.
C3_DescriptionFailureFailsBuild ==
    \A i \in 1..Len(ScpdAnswers) :
        DescriptionFails(ScpdAnswers[i]) =>
            /\ pc = "done"
            /\ result.kind = "err"
            /\ result = parse_service_description(ScpdAnswers[i])

\* The second service's description failed after the first one's succeeded
C3_Witness ==
    /\ pc = "done"
    /\ Len(ScpdAnswers) = 2
    /\ Len(services_with_actions) = 1
    /\ DescriptionFails(ScpdAnswers[2])
    /\ result.kind = "err"

\* The descriptor's answer makes the build fail
DescriptorFails(resp) ==
    \/ ~resp.ok
    \/ DeviceOf(location, resp.doc).kind = "err"
    \/ ServiceListOf(BaseOf(location), resp.doc).kind = "err"

\* C4: fetches are issued one at a time: the descriptor's first, then one
\* per service in document order, each after the previous fetch and its
\* parse have completed; two fetches are never in flight, and no fetch is
\* issued after the first failure.
C4_FetchesSequential ==
    /\ Len(inflight) <= 1
    /\ Len(issued) = Len(responses) + Len(inflight)
    /\ inflight # <<>> => inflight = <<issued[Len(issued)]>>
    /\ (entry = "parse_location" /\ issued # <<>>) => issued[1] = location
    /\ Len(ScpdIssued) <= Len(services)
    /\ Len(ScpdIssued) <= Len(services_with_actions) + 1
    /\ \A k \in 1..Len(ScpdIssued) :
          /\ ScpdIssued[k] = services[k].scpd_url
          /\ ResolvedAgainst(base_url, xml_root.serviceList[k]["SCPDURL"].val,
                             ScpdIssued[k])
    /\ \A i \in 1..Len(responses) :
          (IF entry = "parse_location" /\ i = 1
           THEN DescriptorFails(responses[i])
           ELSE DescriptionFails(responses[i])) =>
              /\ i = Len(responses)
              /\ inflight = <<>>
              /\ pc = "done"

\* The second service's fetch is in flight, the first one's being done
C4_Witness ==
    /\ entry = "parse_location"
    /\ pc = "await_scpd"
    /\ Len(issued) = 3
    /\ Len(responses) = 2
    /\ Len(services_with_actions) = 1

\* C9: in parse_location a missing required device field (deviceType,
\* friendlyName, manufacturer, modelName, UDN) fails the build with an error
\* naming the field and no Device is returned; only manufacturerURL,
\* modelDescription and modelNumber may be missing, and are then absent.
C9_MissingRequiredFieldFails ==
    (entry = "parse_location" /\ pc = "done" /\ xml_root.wf
        /\ xml_root.hasDevice) =>
        /\ \A f \in RequiredDeviceFields :
              ~xml_root.fields[f].some =>
                  result.kind = "err" /\ result.error = f
        /\ result.kind = "ok" =>
              /\ ~xml_root.fields["manufacturerURL"].some =>
                    result.value.manufacturer_url = None
              /\ ~xml_root.fields["modelDescription"].some =>
                    result.value.model_description = None
              /\ ~xml_root.fields["modelNumber"].some =>
                    result.value.model_number = None

-----------------------------------------------------------------------------
(* Properties of deserialize_content_directory *)

Playable(pi) == Contains(pi, Audio) \/ Contains(pi, Video)

\* The res elements of item i, in document order
RECURSIVE ResOf(_, _)
ResOf(rs, i) ==
    IF rs = <<>> THEN <<>>
    ELSE IF Head(rs).owner = i THEN <<Head(rs)>> \o ResOf(Tail(rs), i)
    ELSE ResOf(Tail(rs), i)

\* The texts of ts that contain the token
RECURSIVE WithToken(_)
WithToken(ts) ==
    IF ts = <<>> THEN <<>>
    ELSE IF Contains(Head(ts), ip) THEN <<Head(ts)>> \o WithToken(Tail(ts))
    ELSE WithToken(Tail(ts))

\* C5: for every returned item whose url is non-empty, the url is the text
\* of a res element of that same item whose own protocolInfo contains
\* "audio" or "video" and whose text contains the token; a res that is
\* neither audio nor video never supplies the url.  Stated for the flat
\* listings that the reader accepts as well-formed.
C5_UrlFromPlayableRes ==
    (cd_result.kind = "ok" /\ stream = "end" /\ didl.flat) =>
        \A i \in 1..Len(cd_result.value[2]) :
            LET u == cd_result.value[2][i].url IN
            u # <<>> =>
                \E k \in 1..Len(didl.res) :
                    /\ didl.res[k].owner = i
                    /\ Playable(didl.res[k].pi)
                    /\ \E t \in 1..Len(didl.res[k].texts) :
                          didl.res[k].texts[t] = u
                    /\ Contains(u, ip)

\* C6: in a flat listing, an item whose first res has a protocolInfo that is
\* neither audio nor video and whose second res is audio or video with a
\* text containing the token has that text as its url: the first res is
\* ignored, and no later text replaces the url.
C6_SecondResSuppliesUrl ==
    didl.flat =>
        \A i \in 1..Len(items) :
            LET r == ResOf(didl.res, i) IN
            (/\ Len(r) >= 2
             /\ r[1].pi # <<>>
             /\ ~Playable(r[1].pi)
             /\ Playable(r[2].pi)
             /\ WithToken(r[2].texts) # <<>>) =>
                /\ items[i].url = WithToken(r[2].texts)[1]
                /\ cd_result.kind = "ok" =>
                      cd_result.value[2][i].url = WithToken(r[2].texts)[1]

\* The image res came first and held a text with the token; the audio res
\* holds another one, which is the url
C6_Witness ==
    /\ didl.flat
    /\ Len(items) = 1
    /\ Len(didl.res) = 2
    /\ didl.res[1].pi = ProtocolImage
    /\ WithToken(didl.res[1].texts) # <<>>
    /\ didl.res[2].pi = ProtocolAudio
    /\ WithToken(didl.res[2].texts) # <<>>
    /\ didl.res[1].texts[1] # didl.res[2].texts[1]
    /\ items[1].url = didl.res[2].texts[1]

-----------------------------------------------------------------------------
(* Properties of the scalar extractors *)

\* The response holds the target once, with one text inside
OneText == Len(hits) = 1 /\ Len(hits[1]) = 1

\* The ':'-separated groups of a text are all numbers
NumericGroups(t) ==
    \A i \in 1..Len(Split(t, ":")) :
        LET g == Split(t, ":")[i] IN
        g # <<>> /\ \A j \in 1..Len(g) : IsDigit(g[j])

\* hours:minutes:seconds read from the right: the last group is the seconds
RightAligned(t) ==
    LET g == Split(t, ":")
        n == Len(g)
        at(k) == IF n >= k THEN DecimalValue(g[n - k + 1]) ELSE 0
    IN at(3) * 3600 + at(2) * 60 + at(1)

\* C7: parse_position reads a RelTime text of two or three ':'-separated
\* numeric groups right-aligned as hours:minutes:seconds, missing leading
\* groups being 0, and returns the total of seconds ("0:05" gives 5)
C7_PositionRightAligned ==
    (/\ fn = "parse_position"
     /\ sc_stream = "end"
     /\ OneText
     /\ Len(Split(hits[1][1], ":")) \in {2, 3}
     /\ NumericGroups(hits[1][1])) =>
        sc_result = Ok(RightAligned(hits[1][1]))

\* Exactly three two-digit groups, HH:MM:SS
IsHHMMSS(t) ==
    /\ Len(t) = 8
    /\ \A i \in {3, 6} : t[i] = ":"
    /\ \A i \in {1, 2, 4, 5, 7, 8} : IsDigit(t[i])

\* C8: for a MediaDuration text that is not exactly HH:MM:SS, parse_duration
\* returns an error: neither a number of seconds nor a panic
C8_DurationRejectsOtherShapes ==
    (/\ fn = "parse_duration"
     /\ sc_stream = "end"
     /\ OneText
     /\ ~IsHHMMSS(hits[1][1])) =>
        sc_result.kind = "err"

\* C10: when the reader reports a well-formedness error, the extractor
\* returns an error, never a value built from the events before it
C10_MalformedIsError ==
    /\ sc_stream = "error" => sc_result.kind = "err"
    /\ stream = "error" => cd_result.kind = "err"

\* What extractor f returns for a response that holds the target once, with
\* the one text (or val attribute) v
SoleOutcome(f, v) ==
    CASE f = "parse_volume" -> ParseUnsigned(v, U8Max)
      [] f = "parse_duration" -> Finish(f, Some(Remove(v, ":")))
      [] f = "parse_supported_protocols" -> Finish(f, v)
      [] f \in {"parse_position", "parse_last_change"} -> Finish(f, Some(v))
      [] OTHER -> Ok(Some(v))

\* The response holds the target several times, each time with one text (or
\* one val attribute)
Repeated == Len(hits) >= 2 /\ \A i \in 1..Len(hits) : Len(hits[i]) = 1

\* C11: when the target occurs more than once, the outcome of every scalar
\* extractor is the one the last occurrence alone gives; what the earlier
\* occurrences hold, parsable or not, does not change it
C11_LastOccurrenceWins ==
    (sc_stream = "end" /\ Repeated) =>
        sc_result = SoleOutcome(fn, hits[Len(hits)][1])

-----------------------------------------------------------------------------
(* Routing of text in deserialize_content_directory *)

\* A record after text in its title or class element
WithText(rec, name, value) ==
    IF name = "title" THEN [rec EXCEPT !.title = value]
    ELSE [rec EXCEPT !.object_class = Some(value)]

\* The text goes to the field of the innermost open container or item, and
\* no other record changes; with no record open, no record changes
RoutedToInnermost(value) ==
    LET r == Innermost.rec IN
    IF r.kind = "item"
    THEN /\ items' = [items EXCEPT ![r.idx] = WithText(@, Innermost.name, value)]
         /\ containers' = containers
    ELSE IF r.kind = "container"
    THEN /\ containers' =
                [containers EXCEPT ![r.idx] = WithText(@, Innermost.name, value)]
         /\ items' = items
    ELSE containers' = containers /\ items' = items

\* A text event inside a title or class element
FieldText(value) == CdCharacters(value) /\ Innermost.name \in {"title", "class"}

-----------------------------------------------------------------------------
(* More properties of the scalar extractors *)

\* The text is a decimal numeral
IsNumeral(t) == t # <<>> /\ \A i \in 1..Len(t) : IsDigit(t[i])

\* C13: parse_volume returns the CurrentVolume text as an unsigned byte: a
\* numeral in 0..255 gives its value, a larger or non-numeric one an error
C13_VolumeIsByte ==
    (fn = "parse_volume" /\ sc_stream = "end" /\ OneText) =>
        LET t == hits[1][1] IN
        IF IsNumeral(t) /\ DecimalValue(t) <= 255
        THEN sc_result = Ok(DecimalValue(t))
        ELSE sc_result.kind = "err"

C13_Witness ==
    /\ fn = "parse_volume" /\ sc_stream = "end" /\ OneText
    /\ hits[1][1] = <<"3", "0", "0">>
    /\ sc_result.kind = "err"

RequiredExtractors == {"parse_volume", "parse_duration", "parse_position"}

OptionExtractors == {"parse_last_change"} \cup ValExtractors

\* C14: when the target never appears in a well-formed response, the
\* required extractors return the incomplete-response error and the
\* Option-returning ones return success with an absent value
C14_AbsentTarget ==
    (sc_stream = "end" /\ hits = <<>>) =>
        /\ fn \in RequiredExtractors =>
              sc_result = [kind |-> "err", error |-> "Invalid response from device"]
        /\ fn \in OptionExtractors => sc_result = Ok(None)

C14_Witness ==
    /\ fn = "parse_volume" /\ sc_stream = "end" /\ hits = <<>>
    /\ sc_nev = MaxScalarEvents
    /\ sc_result.kind = "err"

\* The number the two digits at positions i and i+1 spell
TwoDigits(t, i) == DigitVal(t[i]) * 10 + DigitVal(t[i + 1])

\* C15: for a MediaDuration text HH:MM:SS of two-digit groups,
\* parse_duration returns HH*3600 + MM*60 + SS ("01:02:03" gives 3723)
C15_DurationOfHHMMSS ==
    (fn = "parse_duration" /\ sc_stream = "end" /\ OneText /\ IsHHMMSS(hits[1][1])) =>
        LET t == hits[1][1] IN
        sc_result = Ok(TwoDigits(t, 1) * 3600 + TwoDigits(t, 4) * 60 + TwoDigits(t, 7))

C15_Witness ==
    /\ fn = "parse_duration" /\ sc_stream = "end" /\ OneText
    /\ hits[1][1] = <<"0", "1", ":", "0", "2", ":", "0", "3">>
    /\ sc_result = Ok(3723)

\* C16: parse_position rejects a RelTime text that is a single group without
\* ':' ("05"): it returns an error, never a number of seconds
C16_PositionRejectsSingleGroup ==
    (/\ fn = "parse_position"
     /\ sc_stream = "end"
     /\ OneText
     /\ \A i \in 1..Len(hits[1][1]) : hits[1][1][i] # ":") =>
        sc_result.kind = "err"

\* The pieces put together again, with c between them
RECURSIVE Join(_, _)
Join(pieces, c) ==
    IF Len(pieces) = 1 THEN pieces[1]
    ELSE pieces[1] \o <<c>> \o Join(Tail(pieces), c)

\* C17: parse_supported_protocols returns the Sink text split on ',' in
\* order; with an empty Sink text, or none seen, it returns the one-element
\* sequence holding the empty string
C17_ProtocolsSplit ==
    (fn = "parse_supported_protocols" /\ sc_stream = "end") =>
        /\ (\A i \in 1..Len(hits) : hits[i] = <<>>) => sc_result = Ok(<< <<>> >>)
        /\ OneText =>
              /\ sc_result.kind = "ok"
              /\ Len(sc_result.value) >= 1
              /\ \A k \in 1..Len(sc_result.value) :
                    \A j \in 1..Len(sc_result.value[k]) : sc_result.value[k][j] # ","
              /\ Join(sc_result.value, ",") = hits[1][1]

C17_Witness ==
    /\ fn = "parse_supported_protocols" /\ sc_stream = "end"
    /\ hits = << <<>> >>
    /\ sc_result = Ok(<< <<>> >>)

-----------------------------------------------------------------------------
(* More properties of the device build *)

\* An argument element that lacks one of its three children
FaultyArgument(g) ==
    ~g.name.some \/ ~g.direction.some \/ ~g.relatedStateVariable.some

\* An action element that lacks its name, or holds a faulty argument
FaultyAction(x) ==
    \/ ~x.name.some
    \/ /\ x.hasArgumentList
       /\ \E j \in 1..Len(x.arguments) : FaultyArgument(x.arguments[j])

ActionErrors ==
    {"Service::Action missing name",
     "Service::Action::Argument missing name",
     "Service::Action::Argument missing direction",
     "Service::Action::Argument missing relatedStateVariable"}

\* The arguments args are those of the elements gs, in the same order
ArgumentsInOrder(args, gs) ==
    /\ Len(args) = Len(gs)
    /\ \A j \in 1..Len(gs) :
          /\ args[j].name = gs[j].name.val
          /\ args[j].direction = gs[j].direction.val
          /\ args[j].related_state_variable = gs[j].relatedStateVariable.val

\* The actions acts are those of the elements xs, in the same order
ActionsInOrder(acts, xs) ==
    /\ Len(acts) = Len(xs)
    /\ \A k \in 1..Len(xs) :
          /\ acts[k].name = xs[k].name.val
          /\ ArgumentsInOrder(acts[k].arguments,
                              IF xs[k].hasArgumentList THEN xs[k].arguments
                              ELSE <<>>)

\* C18: when an action of a service description lacks its name, or an
\* argument lacks name, direction or relatedStateVariable, the call returns
\* an error and no action list of that service is kept, not even the actions
\* before the faulty one; otherwise the actions and their arguments are in
\* document order
C18_FaultyActionAbandonsList ==
    \A i \in 1..Len(ScpdAnswers) :
        LET a == ScpdAnswers[i] IN
        (a.ok /\ a.doc.wf /\ a.doc.hasActionList) =>
            IF \E k \in 1..Len(a.doc.actions) : FaultyAction(a.doc.actions[k])
            THEN /\ pc = "done"
                 /\ result.kind = "err"
                 /\ result.error \in ActionErrors
                 /\ i = Len(ScpdAnswers)
                 /\ Len(services_with_actions) = i - 1
            ELSE /\ Len(services_with_actions) >= i
                 /\ ActionsInOrder(services_with_actions[i].actions, a.doc.actions)

\* The second action of a description has an argument without direction
C18_Witness ==
    /\ pc = "done"
    /\ ScpdAnswers # <<>>
    /\ LET a == ScpdAnswers[Len(ScpdAnswers)] IN
        /\ a.ok /\ a.doc.wf /\ a.doc.hasActionList
        /\ Len(a.doc.actions) = 2
        /\ ~FaultyAction(a.doc.actions[1])
        /\ FaultyAction(a.doc.actions[2])
    /\ result = Err("Service::Action::Argument missing direction")

\* C19: a fetched, well-formed service description without actionList gives
\* an empty action list, not an error: the service is kept with no actions,
\* and the build of a device that holds it succeeds
C19_NoActionListNoActions ==
    \A i \in 1..Len(ScpdAnswers) :
        LET a == ScpdAnswers[i] IN
        (a.ok /\ a.doc.wf /\ ~a.doc.hasActionList) =>
            /\ Len(services_with_actions) >= i
            /\ services_with_actions[i] = [services[i] EXCEPT !.actions = <<>>]
            /\ i = Len(ScpdAnswers) => result.kind # "err"
            /\ i = Len(services) => Returned
            /\ Returned =>
                  /\ Len(ReturnedServices) = Len(services)
                  /\ ReturnedServices[i] = [services[i] EXCEPT !.actions = <<>>]

\* A device built with one service whose description has no actionList
C19_Witness ==
    /\ entry = "parse_location"
    /\ Returned
    /\ Len(ScpdAnswers) = 1
    /\ ScpdAnswers[1].ok /\ ScpdAnswers[1].doc.wf
    /\ ~ScpdAnswers[1].doc.hasActionList
    /\ Len(result.value.services) = 1
    /\ result.value.services[1].actions = <<>>

\* A child of serviceList that lacks one of its five fields
LacksField(e) == \E f \in ServiceFieldNames : ~e[f].some

\* parse_services has read a serviceList with such a child
FaultyServiceList ==
    /\ pc # "idle"
    /\ xml_root.wf /\ xml_root.hasDevice /\ xml_root.hasServiceList
    /\ \E k \in 1..Len(xml_root.serviceList) : LacksField(xml_root.serviceList[k])

\* C20: when a child of serviceList lacks one of its five fields,
\* parse_services fails and returns no service list, and no description is
\* fetched.  The error names the first missing field of the first such
\* child, unless a child before it has a URL that cannot be resolved: the
\* error is then that URL's
C20_MissingServiceFieldFails ==
    FaultyServiceList =>
        LET l == xml_root.serviceList
            k == CHOOSE n \in 1..Len(l) :
                     LacksField(l[n]) /\ \A j \in 1..(n - 1) : ~LacksField(l[j])
            i == CHOOSE n \in 1..5 :
                     /\ ~l[k][ServiceFieldOrder[n]].some
                     /\ \A j \in 1..(n - 1) : l[k][ServiceFieldOrder[j]].some
        IN  /\ pc = "done"
            /\ result.kind = "err"
            /\ services = <<>>
            /\ ScpdIssued = <<>>
            /\ result.error \in {ServiceMissing(ServiceFieldOrder[i]), "InvalidUrl"}
            /\ k = 1 => result.error = ServiceMissing(ServiceFieldOrder[i])

\* C20 as stated: the error always names a missing service field
C20_ErrorNamesMissingField ==
    FaultyServiceList =>
        /\ pc = "done"
        /\ result.kind = "err"
        /\ \E k \in 1..Len(xml_root.serviceList) :
              \E f \in ServiceFieldNames :
                  /\ ~xml_root.serviceList[k][f].some
                  /\ result.error = ServiceMissing(f)

\* The second child of a serviceList lacks a field, the first is complete
C20_Witness ==
    /\ FaultyServiceList
    /\ Len(xml_root.serviceList) = 2
    /\ ~LacksField(xml_root.serviceList[1])
    /\ result = Err(ServiceMissing("SCPDURL"))

-----------------------------------------------------------------------------
(* Properties of deserialize_metadata *)

\* The id attributes the item elements of the document carry, in order
RECURSIVE IdsPresent(_)
IdsPresent(ids) ==
    IF ids = <<>> THEN <<>>
    ELSE (IF Head(ids).some THEN <<Head(ids).val>> ELSE <<>>)
             \o IdsPresent(Tail(ids))

\* C21: deserialize_metadata returns the empty title when no title text is
\* seen, and artist, album and albumArtUri absent when their elements are
\* not seen; url is the id of the last item that carries one, or the empty
\* string when no item carries an id
C21_MetadataDefaults ==
    md_result # NoResult =>
        /\ md_result.kind = "ok"
        /\ md_doc.texts["title"] = <<>> => md_result.value.title = ""
        /\ "artist" \notin md_doc.elems => md_result.value.artist = None
        /\ "album" \notin md_doc.elems => md_result.value.album = None
        /\ "albumArtURI" \notin md_doc.elems => md_result.value.album_art_uri = None
        /\ LET ids == IdsPresent(md_doc.ids) IN
           md_result.value.url = IF ids = <<>> THEN "" ELSE ids[Len(ids)]

\* Two items with different ids and a title element without text
C21_Witness ==
    /\ md_stream = "end"
    /\ md_doc.ids = <<Some("u1"), Some("u2")>>
    /\ "title" \in md_doc.elems
    /\ md_result.value.title = ""
    /\ md_result.value.artist = None
    /\ md_result.value.url = "u2"

-----------------------------------------------------------------------------
(* Determinism *)

-----------------------------------------------------------------------------
(* Order of parse_services' two loops *)

\* The text t cannot be resolved against base
Unresolvable(base, t) ==
    \/ ~IsAbsoluteUrl(base)
    \/ t[1] \in Schemes /\ ~IsAbsoluteUrl(t)
    \/ Len(t) >= 3 /\ t[1] = "" /\ t[2] = "" /\ t[3] \in BadHosts

\* A child of serviceList that cannot become a Service
FaultyService(base, e) ==
    \/ LacksField(e)
    \/ \E f \in UrlFieldNames : Unresolvable(base, e[f].val)

\* C23: parse_services extracts the fields of every service and resolves
\* its three URLs before the first service-description fetch is issued: a
\* missing field or an unresolvable URL in any service, even the last,
\* fails the build with no service-description fetch issued
C23_AllServicesBeforeFirstFetch ==
    (pc # "idle" /\ xml_root.wf /\ xml_root.hasDevice /\ xml_root.hasServiceList) =>
        LET l == xml_root.serviceList IN
        /\ ScpdIssued # <<>> =>
              /\ Len(services) = Len(l)
              /\ \A k \in 1..Len(l) :
                    /\ ~FaultyService(base_url, l[k])
                    /\ IsAbsoluteUrl(services[k].control_url)
                    /\ IsAbsoluteUrl(services[k].event_sub_url)
                    /\ IsAbsoluteUrl(services[k].scpd_url)
        /\ (\E k \in 1..Len(l) : FaultyService(base_url, l[k])) =>
              /\ pc = "done"
              /\ result.kind = "err"
              /\ ScpdIssued = <<>>
              /\ inflight = <<>>

\* The last of two services has a URL that cannot be resolved
C23_Witness ==
    /\ entry = "parse_location"
    /\ pc = "done"
    /\ xml_root.wf /\ xml_root.hasDevice /\ xml_root.hasServiceList
    /\ Len(xml_root.serviceList) = 2
    /\ ~FaultyService(base_url, xml_root.serviceList[1])
    /\ ~LacksField(xml_root.serviceList[2])
    /\ FaultyService(base_url, xml_root.serviceList[2])
    /\ result = Err("InvalidUrl")
    /\ ScpdIssued = <<>>

-----------------------------------------------------------------------------
(* res elements outside an item *)

\* A start tag of a res element read while no item element is open
ResOutsideItem(tag) ==
    CdStartElement(tag) /\ tag.name = "res" /\ Innermost.item = 0

\* A start tag of a res element read while an item element is open
ResInsideItem(tag) ==
    CdStartElement(tag) /\ tag.name = "res" /\ Innermost.item # 0

\* C24: the attributes of a res element modify only the item whose element
\* is open; a res element read while no item is open modifies no record and
\* does not make the scan panic
C24_ResTouchesOpenItemOnly ==
    [][\A tag \in CdStartTags :
          /\ ResInsideItem(tag) =>
                /\ containers' = containers
                /\ Len(items') = Len(items)
                /\ \A i \in 1..Len(items) :
                      i # Innermost.item => items'[i] = items[i]
          /\ ResOutsideItem(tag) =>
                /\ containers' = containers
                /\ items' = items
                /\ cd_result'.kind # "panic"]_vars

-----------------------------------------------------------------------------
(* parse_browse_response as the composition of its two stages *)

\* The texts of the envelope read inside a Result element
ResultTexts == SelectSeq(pb_doc.texts, LAMBDA t : t.inside)

\* C25: when parse_browse_response has returned, its outcome is the outcome
\* of deserialize_content_directory on the text of the Result element: the
\* same value, or the same error (an error of any call made is the error
\* returned); with no text in a Result element the outcome is success with
\* no containers and no items.
C25_BrowseIsInnerOfResultText ==
    pb_result # NoResult =>
        /\ ResultTexts = <<>> => pb_result = Ok(<<<<>>, <<>>>>)
        /\ (pb_doc.results = 1 /\ Len(ResultTexts) = 1) =>
               pb_result = ResultTexts[1].outcome
        /\ \A i \in 1..Len(pb_doc.texts) :
               pb_doc.texts[i].outcome.kind = "err" =>
                   pb_result = pb_doc.texts[i].outcome

C25_Witness ==
    /\ pb_result.kind = "err"
    /\ pb_doc.results = 1
    /\ Len(ResultTexts) = 1
    /\ ResultTexts[1].outcome = pb_result

====
